---- MODULE Spec2Model ----
(***************************************************************************)
(* Model of the Alan task runner of the VS Code extension (src/tasks.ts):  *)
(* the shell resolver, the path normalizer, the project-root locator, the  *)
(* task executor with its output-to-diagnostics parser, and the task       *)
(* catalog.  Texts are TLA+ strings; a character is a string of length 1.  *)
(***************************************************************************)
EXTENDS Integers, Sequences, FiniteSets, TLC

VARIABLES
    output_channel,          \* the text shown by the output display
    diagnostics_collection,  \* the shared diagnostics collection
    scan_text,               \* SpecScan: the accumulated output that is parsed
    scan_pc,                 \* SpecScan: position in the close handler
    scan_lines,              \* SpecScan: output_acc.split('\n')
    scan_next,               \* SpecScan: index of the next line of forEach
    scan_state,              \* SpecScan: diagnostics and current_diagnostic
    child,                   \* the executions: child process and closure of
                             \* each call of executeCommand
    last_closed,             \* the execution whose close handler ran last
                             \* (0: none ran yet)
    platform,                \* process.platform
    task_shell,              \* the setting alan-definitions.taskShell
    files,                   \* the files that exist
    workspace_root,          \* vscode.workspace.rootPath
    active_file,             \* fileName of the active editor's document,
                             \* Undefined when no editor is active
    models,                  \* the model links found under <root>/systems,
                             \* Undefined when that directory cannot be read
    op,                      \* SpecOps: the operation in progress
    notifications,           \* the error notifications shown
    walk,                    \* SpecRoot: one call of resolveAlanRoot
    conv,                    \* SpecPaths: a path and its conversions
    matched,                 \* SpecMatch: a line and its pattern matches
    chunked                  \* SpecChunks: an output text cut in two chunks

scan_vars == <<scan_text, scan_pc, scan_lines, scan_next, scan_state>>
exec_vars == <<child, last_closed>>
env_vars == <<platform, task_shell, files, workspace_root, active_file,
              models>>
op_vars == <<op, notifications>>
unit_vars == <<walk, conv, matched, chunked>>
program_vars == <<output_channel, diagnostics_collection, scan_vars,
                  exec_vars, env_vars, op_vars>>
vars == <<output_channel, diagnostics_collection, scan_vars, exec_vars,
          env_vars, op_vars, unit_vars>>

\* ------------------------------------------------------------------------
\* Bounds of the model
\* ------------------------------------------------------------------------
MaxLines == 3        \* lines of one scanned output text (SpecScan)
MaxExec == 2         \* calls of executeCommand (Spec)
MaxChunks == 2       \* data events of all child processes together (Spec)

\* ------------------------------------------------------------------------
\* Strings
\* ------------------------------------------------------------------------
Char(s, i) == SubSeq(s, i, i)

Digits == "0123456789"
LowerLetters == "abcdefghijklmnopqrstuvwxyz"
UpperLetters == "ABCDEFGHIJKLMNOPQRSTUVWXYZ"

CharsOf(s) == {Char(s, i) : i \in 1..Len(s)}

Digit == CharsOf(Digits)
Letter == CharsOf(LowerLetters) \cup CharsOf(UpperLetters)

\* '.' of a JavaScript regular expression matches every character but a
\* line terminator
LineTerminator == {"\n", "\r"}

Max(S) == CHOOSE x \in S : \A y \in S : y <= x
Min(S) == CHOOSE x \in S : \A y \in S : x <= y

\* s.startsWith(w, p - 1), positions counted from 1
StartsWithAt(s, p, w) ==
    /\ p >= 1
    /\ p + Len(w) - 1 <= Len(s)
    /\ SubSeq(s, p, p + Len(w) - 1) = w

\* String.prototype.split('\n')
RECURSIVE Split(_)
Split(s) ==
    LET nls == {i \in 1..Len(s) : Char(s, i) = "\n"}
    IN  IF nls = {} THEN <<s>>
        ELSE <<SubSeq(s, 1, Min(nls) - 1)>>
                 \o Split(SubSeq(s, Min(nls) + 1, Len(s)))

\* parseInt(str, 10) of a string of decimal digits
DigitValue(c) == CHOOSE n \in 0..9 : Char(Digits, n + 1) = c

RECURSIVE parseInt(_)
parseInt(str) ==
    IF str = "" THEN 0
    ELSE parseInt(SubSeq(str, 1, Len(str) - 1)) * 10
             + DigitValue(Char(str, Len(str)))

\* ------------------------------------------------------------------------
\* Interpreters and the path normalizer
\* ------------------------------------------------------------------------
wsl == "C:\\Windows\\System32\\wsl.exe"
wsl_bash == "C:\\Windows\\System32\\bash.exe"
git_bash_x64 == "C:\\Program Files\\Git\\bin\\bash.exe"
git_bash_x32 == "C:\\Program Files (x86)\\Git\\bin\\bash.exe"
linux_osx_bash == "/bin/bash"

\* the value undefined of a variable declared as a string
Undefined == "<undefined>"

isWsl(shell) == shell = wsl_bash

\* s.replace(/c/g, by) for a single character c
RECURSIVE ReplaceAllChar(_, _, _)
ReplaceAllChar(s, c, by) ==
    IF s = "" THEN ""
    ELSE (IF Char(s, 1) = c THEN by ELSE Char(s, 1))
             \o ReplaceAllChar(SubSeq(s, 2, Len(s)), c, by)

\* path.replace(/([a-zA-Z]):/, ...): the first letter followed by a colon
DriveIndex(path) ==
    LET is == {i \in 1..(Len(path) - 1) :
                  Char(path, i) \in Letter /\ Char(path, i + 1) = ":"}
    IN  IF is = {} THEN 0 ELSE Min(is)

pathToBashPath(path, shell) ==
    LET i == DriveIndex(path)
        drive == IF i = 0 THEN path
                 ELSE SubSeq(path, 1, i - 1)
                          \o (IF isWsl(shell) THEN "/mnt/" \o Char(path, i)
                              ELSE Char(path, i) \o ":")
                          \o SubSeq(path, i + 2, Len(path))
    IN  ReplaceAllChar(ReplaceAllChar(drive, "\\", "/"), " ", "\\ ")

\* string.replace(/\/mnt\/([a-z])\//g, '$1:/') from position i on
RECURSIVE ReplaceMnt(_, _)
ReplaceMnt(s, i) ==
    IF i > Len(s) THEN ""
    ELSE IF /\ StartsWithAt(s, i, "/mnt/")
            /\ i + 6 <= Len(s)
            /\ Char(s, i + 5) \in CharsOf(LowerLetters)
            /\ Char(s, i + 6) = "/"
         THEN Char(s, i + 5) \o ":/" \o ReplaceMnt(s, i + 7)
         ELSE Char(s, i) \o ReplaceMnt(s, i + 1)

bashPathsToWinPaths(string, shell) ==
    IF isWsl(shell) THEN ReplaceMnt(string, 1) ELSE string

\* ------------------------------------------------------------------------
\* The four patterns of the output parser (tasks.ts, close handler)
\* ------------------------------------------------------------------------
NoMatch == [ok |-> FALSE]

\* (?:\/|[a-zA-Z]:) at the start of the line: the length it takes, 0 if
\* the line starts with neither
HeadLen(s) ==
    IF StartsWithAt(s, 1, "/") THEN 1
    ELSE IF Len(s) >= 2 /\ Char(s, 1) \in Letter /\ Char(s, 2) = ":" THEN 2
    ELSE 0

\* ^((?:\/|[a-zA-Z]:).*<ext>): the positions at which group 1 can end
PathEnds(s, ext) ==
    LET h == HeadLen(s)
        ts == {i \in 1..Len(s) : Char(s, i) \in LineTerminator}
        t == IF ts = {} THEN Len(s) + 1 ELSE Min(ts)
    IN  IF h = 0 \/ t <= h THEN {}
        ELSE {k \in (h + Len(ext))..(t - 1) :
                 SubSeq(s, k - Len(ext) + 1, k) = ext}

\* [0-9]+ at p: the position of its last digit, p - 1 if there is none
RECURSIVE DigitsEnd(_, _)
DigitsEnd(s, p) ==
    IF p <= Len(s) /\ Char(s, p) \in Digit THEN DigitsEnd(s, p + 1)
    ELSE p - 1

\* ([0-9]+):([0-9]+) at p
Coordinates(s, p) ==
    LET e1 == DigitsEnd(s, p)
        e2 == DigitsEnd(s, e1 + 2)
    IN  IF e1 >= p /\ StartsWithAt(s, e1 + 1, ":") /\ e2 >= e1 + 2
        THEN [ok |-> TRUE, line |-> SubSeq(s, p, e1),
              column |-> SubSeq(s, e1 + 2, e2), next |-> e2 + 1]
        ELSE NoMatch

\* (error|warning|info) at p, "" if none of the three
SeverityToken(s, p) ==
    IF StartsWithAt(s, p, "error") THEN "error"
    ELSE IF StartsWithAt(s, p, "warning") THEN "warning"
    ELSE IF StartsWithAt(s, p, "info") THEN "info"
    ELSE ""

\* (.*) at p: up to the end of the line or the first line terminator
Rest(s, p) ==
    LET ts == {i \in p..Len(s) : Char(s, i) \in LineTerminator}
    IN  SubSeq(s, p, IF ts = {} THEN Len(s) ELSE Min(ts) - 1)

\* " (error|warning|info): (.*)" at p
SeverityTail(s, p) ==
    LET tok == IF StartsWithAt(s, p, " ") THEN SeverityToken(s, p + 1) ELSE ""
        q == p + 1 + Len(tok)
    IN  IF tok # "" /\ StartsWithAt(s, q, ": ")
        THEN [ok |-> TRUE, severity |-> tok, message |-> Rest(s, q + 2)]
        ELSE NoMatch

\* the rest of re_range after group 1 ending at k
re_range_at(s, k) ==
    LET c1 == IF StartsWithAt(s, k + 1, " from ")
              THEN Coordinates(s, k + 7) ELSE NoMatch
        c2 == IF c1.ok /\ StartsWithAt(s, c1.next, " to ")
              THEN Coordinates(s, c1.next + 4) ELSE NoMatch
        t  == IF c2.ok THEN SeverityTail(s, c2.next) ELSE NoMatch
    IN  IF t.ok
        THEN [ok |-> TRUE,
              g |-> <<SubSeq(s, 1, k), c1.line, c1.column,
                      c2.line, c2.column, t.severity, t.message>>]
        ELSE NoMatch

\* the rest of re_locat after group 1 ending at k
re_locat_at(s, k) ==
    LET c1 == IF StartsWithAt(s, k + 1, " at ")
              THEN Coordinates(s, k + 5) ELSE NoMatch
        t  == IF c1.ok THEN SeverityTail(s, c1.next) ELSE NoMatch
    IN  IF t.ok
        THEN [ok |-> TRUE,
              g |-> <<SubSeq(s, 1, k), c1.line, c1.column,
                      t.severity, t.message>>]
        ELSE NoMatch

\* the rest of re_link and of re_other after group 1 ending at k
re_plain_at(s, k) ==
    LET t == SeverityTail(s, k + 1)
    IN  IF t.ok
        THEN [ok |-> TRUE, g |-> <<SubSeq(s, 1, k), t.severity, t.message>>]
        ELSE NoMatch

\* line.match(re): '.*' is greedy, so group 1 is the longest candidate
\* after which the rest of the pattern matches; g[i] is match[i]
re_range(line) ==
    LET ks == {k \in PathEnds(line, ".alan") : re_range_at(line, k).ok}
    IN  IF ks = {} THEN NoMatch ELSE re_range_at(line, Max(ks))

re_locat(line) ==
    LET ks == {k \in PathEnds(line, ".alan") : re_locat_at(line, k).ok}
    IN  IF ks = {} THEN NoMatch ELSE re_locat_at(line, Max(ks))

re_link(line) ==
    LET ks == {k \in PathEnds(line, ".link") : re_plain_at(line, k).ok}
    IN  IF ks = {} THEN NoMatch ELSE re_plain_at(line, Max(ks))

re_other(line) ==
    LET ks == {k \in PathEnds(line, ".alan") : re_plain_at(line, k).ok}
    IN  IF ks = {} THEN NoMatch ELSE re_plain_at(line, Max(ks))

\* ------------------------------------------------------------------------
\* Editor types used by the parser
\* ------------------------------------------------------------------------
\* vscode.Uri.file(path).toString(), the key of a file in a diagnostic
\* collection: a leading slash is added when missing and an upper-case
\* drive letter is lowered
LowerCase(c) ==
    IF c \in CharsOf(UpperLetters)
    THEN Char(LowerLetters, CHOOSE n \in 1..26 : Char(UpperLetters, n) = c)
    ELSE c

UriFile(path) ==
    LET q == IF StartsWithAt(path, 1, "/") THEN path ELSE "/" \o path
    IN  IF Len(q) >= 3 /\ Char(q, 2) \in Letter /\ Char(q, 3) = ":"
        THEN "/" \o LowerCase(Char(q, 2)) \o SubSeq(q, 3, Len(q))
        ELSE q

\* new vscode.Position(line, character) throws on a negative argument, so
\* new vscode.Range(...) throws when one of its four numbers is negative
RangeThrows(startLine, startCharacter, endLine, endCharacter) ==
    startLine < 0 \/ startCharacter < 0 \/ endLine < 0 \/ endCharacter < 0

IsBefore(a, b) == a[1] < b[1] \/ (a[1] = b[1] /\ a[2] < b[2])

\* a Range that keeps its arguments in the order given
Range_AsGiven(startLine, startCharacter, endLine, endCharacter) ==
    [start |-> <<startLine, startCharacter>>,
     end |-> <<endLine, endCharacter>>]

\* new vscode.Range(startLine, startCharacter, endLine, endCharacter):
\* start is the earlier of the two positions, end the later
Range(startLine, startCharacter, endLine, endCharacter) ==
    LET start == <<startLine, startCharacter>>
        end   == <<endLine, endCharacter>>
    IN  IF IsBefore(start, end)
        THEN [start |-> start, end |-> end]
        ELSE [start |-> end, end |-> start]

\* a mapping that knows the token 'error' only
getSeverity_ErrorOnly(severity) ==
    IF severity = "error" THEN "Error" ELSE "Information"

getSeverity(severity) ==
    IF severity = "error" THEN "Error"
    ELSE IF severity = "warning" THEN "Warning"
    ELSE "Information"

Diagnostic(range, message, severity) ==
    [range |-> range, message |-> message, severity |-> severity]

\* ------------------------------------------------------------------------
\* vscode.DiagnosticCollection: a map from the key of a file to its list
\* of diagnostics
\* ------------------------------------------------------------------------
NoDiagnostics == [u \in {} |-> <<>>]

\* a clear that leaves the collection as it is
DiagnosticCollection_keep(collection) == collection

\* diagnostics_collection.clear()
DiagnosticCollection_clear(collection) == NoDiagnostics

EntryUris(entries) == {entries[i][1] : i \in 1..Len(entries)}

\* the diagnostics of all tuples of one uri, in the order of the tuples
RECURSIVE DiagnosticsOf(_, _)
DiagnosticsOf(entries, uri) ==
    IF entries = <<>> THEN <<>>
    ELSE (IF Head(entries)[1] = uri THEN Head(entries)[2] ELSE <<>>)
             \o DiagnosticsOf(Tail(entries), uri)

\* diagnostics_collection.set(entries): the diagnostics of every uri named
\* in the tuples are replaced by those of its tuples, merged in order; a
\* uri no tuple names keeps what it has
DiagnosticCollection_set(collection, entries) ==
    [u \in (DOMAIN collection) \cup EntryUris(entries) |->
        IF u \in EntryUris(entries) THEN DiagnosticsOf(entries, u)
        ELSE collection[u]]

\* ------------------------------------------------------------------------
\* The output parser: the body of lines.forEach in the close handler
\* ------------------------------------------------------------------------
\* the parser's variables: the array diagnostics, current_diagnostic as
\* the index of its tuple in that array (0: undefined), and whether the
\* loop was left by an exception
ScanStart == [diagnostics |-> <<>>, current_diagnostic |-> 0, threw |-> FALSE]

Push(st, file, range, message, severity) ==
    [diagnostics |-> Append(st.diagnostics,
                            <<file, <<Diagnostic(range, message, severity)>>>>),
     current_diagnostic |-> Len(st.diagnostics) + 1,
     threw |-> FALSE]

Throw(st) == [st EXCEPT !.threw = TRUE]

RangeBranch(st, range_match) ==
    LET file == UriFile(range_match.g[1])
        line == parseInt(range_match.g[2])
        column == parseInt(range_match.g[3])
        endLine == parseInt(range_match.g[4])
        endColumn == parseInt(range_match.g[5])
        severity == range_match.g[6]
        message == range_match.g[7]
    IN  IF RangeThrows(line - 1, column - 1, endLine - 1, endColumn - 1)
        THEN Throw(st)
        ELSE Push(st, file,
                  Range(line - 1, column - 1, endLine - 1, endColumn - 1),
                  message, getSeverity(severity))

LocatBranch(st, locat_match) ==
    LET file == UriFile(locat_match.g[1])
        line == parseInt(locat_match.g[2])
        column == parseInt(locat_match.g[3])
        severity == locat_match.g[4]
        message == locat_match.g[5]
    IN  IF RangeThrows(line - 1, column - 1, line - 1, column - 1)
        THEN Throw(st)
        ELSE Push(st, file,
                  Range(line - 1, column - 1, line - 1, column - 1),
                  message, getSeverity(severity))

\* the branch of re_link and the branch of re_other
PlainBranch(st, match) ==
    LET file == UriFile(match.g[1])
        severity == match.g[2]
        message == match.g[3]
    IN  Push(st, file, Range(0, 0, 0, 0), message, getSeverity(severity))

\* a continuation that attaches to the first Diagnostic of the scan
Continuation_First(st, line) ==
    IF st.current_diagnostic # 0 /\ StartsWithAt(line, 1, "\t")
    THEN [st EXCEPT !.diagnostics[1][2][1].message = @ \o "\n" \o line]
    ELSE st

Continuation(st, line) ==
    IF st.current_diagnostic # 0 /\ StartsWithAt(line, 1, "\t")
    THEN [st EXCEPT !.diagnostics[st.current_diagnostic][2][1].message =
                        @ \o "\n" \o line]
    ELSE st

\* a callback that tests the generic pattern before the three others
ScanLine_OtherFirst(st, line) ==
    LET range_match == re_range(line)
        locat_match == re_locat(line)
        link_match == re_link(line)
        other_match == re_other(line)
    IN  IF st.threw THEN st
        ELSE IF other_match.ok THEN PlainBranch(st, other_match)
        ELSE IF range_match.ok THEN RangeBranch(st, range_match)
        ELSE IF locat_match.ok THEN LocatBranch(st, locat_match)
        ELSE IF link_match.ok THEN PlainBranch(st, link_match)
        ELSE Continuation(st, line)

ScanLine(st, line) ==
    LET range_match == re_range(line)
        locat_match == re_locat(line)
        link_match == re_link(line)
        other_match == re_other(line)
    IN  IF st.threw THEN st
        ELSE IF range_match.ok THEN RangeBranch(st, range_match)
        ELSE IF locat_match.ok THEN LocatBranch(st, locat_match)
        ELSE IF link_match.ok THEN PlainBranch(st, link_match)
        ELSE IF other_match.ok THEN PlainBranch(st, other_match)
        ELSE Continuation(st, line)

\* lines.forEach(...) over the lines from index i on
RECURSIVE ScanFrom(_, _, _)
ScanFrom(st, lines, i) ==
    IF i > Len(lines) THEN st
    ELSE ScanFrom(ScanLine(st, lines[i]), lines, i + 1)

\* the output parser applied to the accumulated output
Scan(output_acc) == ScanFrom(ScanStart, Split(output_acc), 1)

\* ------------------------------------------------------------------------
\* The path module of the platform
\* ------------------------------------------------------------------------
Sep(plat) == IF plat = "win32" THEN "\\" ELSE "/"

IsSep(c, plat) == c = "/" \/ (plat = "win32" /\ c = "\\")

\* the length of path.parse(p).root
RootLen(p, plat) ==
    IF plat = "win32" /\ Len(p) >= 2 /\ Char(p, 1) \in Letter
           /\ Char(p, 2) = ":"
    THEN (IF Len(p) >= 3 /\ IsSep(Char(p, 3), plat) THEN 3 ELSE 2)
    ELSE IF Len(p) >= 1 /\ IsSep(Char(p, 1), plat) THEN 1
    ELSE 0

ParseRoot(p, plat) == SubSeq(p, 1, RootLen(p, plat))

\* the position of the last separator after the root, 0 if there is none
LastSep(p, plat) ==
    LET is == {i \in (RootLen(p, plat) + 1)..(Len(p) - 1) :
                  IsSep(Char(p, i), plat)}
    IN  IF is = {} THEN 0 ELSE Max(is)

\* path.dirname(p)
dirname(p, plat) ==
    IF LastSep(p, plat) # 0 THEN SubSeq(p, 1, LastSep(p, plat) - 1)
    ELSE IF RootLen(p, plat) > 0 THEN ParseRoot(p, plat)
    ELSE "."

\* path.basename(p)
basename(p, plat) ==
    IF LastSep(p, plat) # 0 THEN SubSeq(p, LastSep(p, plat) + 1, Len(p))
    ELSE SubSeq(p, RootLen(p, plat) + 1, Len(p))

\* path.join(dir, name) for a file name
join(dir, name, plat) ==
    IF dir = "." THEN name
    ELSE IF IsSep(Char(dir, Len(dir)), plat) THEN dir \o name
    ELSE dir \o Sep(plat) \o name

\* ------------------------------------------------------------------------
\* The shell resolver and the project-root locator
\* ------------------------------------------------------------------------
\* a resolver that looks for the Git interpreters before the WSL launcher
resolveBashShell_GitFirst(shell, plat, existing) ==
    IF shell # Undefined /\ shell # ""
    THEN [shell |-> shell, error |-> FALSE, probed |-> <<>>]
    ELSE IF plat = "win32"
    THEN (IF git_bash_x64 \in existing
          THEN [shell |-> git_bash_x64, error |-> FALSE,
                probed |-> <<git_bash_x64>>]
          ELSE IF git_bash_x32 \in existing
          THEN [shell |-> git_bash_x32, error |-> FALSE,
                probed |-> <<git_bash_x64, git_bash_x32>>]
          ELSE IF wsl \in existing
          THEN [shell |-> wsl_bash, error |-> FALSE,
                probed |-> <<git_bash_x64, git_bash_x32, wsl>>]
          ELSE [shell |-> Undefined, error |-> TRUE,
                probed |-> <<git_bash_x64, git_bash_x32, wsl>>])
    ELSE [shell |-> linux_osx_bash, error |-> FALSE, probed |-> <<>>]

\* resolveBashShell(): the interpreter, whether showErrorMessage is called,
\* and the files exists was asked for, in order
resolveBashShell(shell, plat, existing) ==
    IF shell # Undefined /\ shell # ""
    THEN [shell |-> shell, error |-> FALSE, probed |-> <<>>]
    ELSE IF plat = "win32"
    THEN (IF wsl \in existing
          THEN [shell |-> wsl_bash, error |-> FALSE, probed |-> <<wsl>>]
          ELSE IF git_bash_x64 \in existing
          THEN [shell |-> git_bash_x64, error |-> FALSE,
                probed |-> <<wsl, git_bash_x64>>]
          ELSE IF git_bash_x32 \in existing
          THEN [shell |-> git_bash_x32, error |-> FALSE,
                probed |-> <<wsl, git_bash_x64, git_bash_x32>>]
          ELSE [shell |-> Undefined, error |-> TRUE,
                probed |-> <<wsl, git_bash_x64, git_bash_x32>>])
    ELSE [shell |-> linux_osx_bash, error |-> FALSE, probed |-> <<>>]

\* find(curdir) of resolveAlanRoot: the directory it resolves to,
\* [settled |-> "rejected"], or [settled |-> "never"] when the walk comes
\* back to the directory it is in
RECURSIVE find(_, _, _, _)
find(curdir, root, existing, plat) ==
    LET alan_file == join(curdir, "alan", plat)
    IN  IF curdir = root THEN [settled |-> "rejected", value |-> Undefined]
        ELSE IF alan_file \notin existing
        THEN (IF dirname(curdir, plat) = curdir
              THEN [settled |-> "never", value |-> Undefined]
              ELSE find(dirname(curdir, plat), root, existing, plat))
        ELSE [settled |-> "resolved", value |-> curdir]

resolveAlanRoot(file_dir, existing, plat) ==
    find(file_dir, ParseRoot(file_dir, plat), existing, plat)

\* ------------------------------------------------------------------------
\* The task executor: executeCommand and the handlers it installs
\* ------------------------------------------------------------------------
Execs == 1..MaxExec

\* state of an execution: "none" before its call of executeCommand;
\* "running": the child runs; "spawn_failed": the child could not be
\* started and its 'error' event is due; "errored": the 'error' handler ran;
\* "closed": the 'close' handler ran; "no_child": spawn returned no child;
\* "threw": spawn threw.  calls lists, in order, the calls that the
\* execution made on the output display, the diagnostics collection and
\* the process library.
NotStarted ==
    [state |-> "none", shell_command |-> "", cwd |-> "", shell |-> "",
     output_acc |-> "", calls |-> <<>>, overlapped |-> FALSE]

ExecIdle ==
    /\ child = [e \in Execs |-> NotStarted]
    /\ last_closed = 0

Live(c) == c.state \in {"running", "spawn_failed", "errored"}

\* what proc.spawn does with a command interpreter that is a string
SpawnOutcomes == {"running", "spawn_failed", "no_child"}

\* proc.spawn(shell, ...): an interpreter that is not a string makes it
\* throw a TypeError
SpawnResult(shell, outcome) == IF shell = Undefined THEN "threw" ELSE outcome

\* executeCommand(shell_command, cwd, shell, output_channel,
\* diagnostics_collection) as execution e
executeCommand(e, shell_command, cwd, shell, outcome) ==
    LET result == SpawnResult(shell, outcome)
        error == "Unable to execute command '" \o shell_command \o "'."
    IN  /\ output_channel' =
               IF result = "no_child" THEN "" \o error \o "\n" ELSE ""
        /\ diagnostics_collection' =
               DiagnosticCollection_clear(diagnostics_collection)
        /\ child' =
               [f \in Execs |->
                   IF f = e
                   THEN [state |-> result,
                         shell_command |-> shell_command,
                         cwd |-> cwd,
                         shell |-> shell,
                         output_acc |-> "",
                         calls |-> <<"output_channel.clear",
                                     "output_channel.show",
                                     "diagnostics_collection.clear",
                                     "proc.spawn">>
                                  \o (IF result = "no_child"
                                      THEN <<"output_channel.appendLine">>
                                      ELSE <<>>),
                         overlapped |-> \E g \in Execs : Live(child[g])]
                   ELSE IF Live(child[f]) /\ result # "threw"
                        THEN [child[f] EXCEPT !.overlapped = TRUE]
                        ELSE child[f]]

\* the number of data events so far
CountOf(calls, name) == Len(SelectSeq(calls, LAMBDA c : c = name))

RECURSIVE SumOver(_, _)
SumOver(f, S) ==
    IF S = {} THEN 0
    ELSE LET x == CHOOSE y \in S : TRUE IN f[x] + SumOver(f, S \ {x})

DataEvents ==
    SumOver([e \in Execs |-> CountOf(child[e].calls, "output_channel.append")],
            Execs)

\* an 'error' handler that writes nothing
ChildError_Silent(e) ==
    /\ child[e].state = "spawn_failed"
    /\ child' = [child EXCEPT ![e].state = "errored"]
    /\ UNCHANGED <<output_channel, diagnostics_collection, last_closed,
                   scan_vars, env_vars, unit_vars, op_vars>>

\* child.on('error', ...)
ChildError(e) ==
    /\ child[e].state = "spawn_failed"
    /\ LET error == "Failure executing command '"
                        \o child[e].shell_command \o "'."
       IN  output_channel' = output_channel \o error \o "\n"
    /\ child' = [child EXCEPT
                    ![e].state = "errored",
                    ![e].calls = Append(@, "output_channel.appendLine")]
    /\ UNCHANGED <<diagnostics_collection, last_closed, scan_vars, env_vars, unit_vars,
                   op_vars>>

\* stripped_stream.on('data', ...): data is a piece of the child's output,
\* its escape sequences removed
StreamData(e, data) ==
    /\ child[e].state = "running"
    /\ DataEvents < MaxChunks
    /\ LET string == bashPathsToWinPaths(data, child[e].shell)
       IN  /\ output_channel' = output_channel \o string
           /\ child' = [child EXCEPT
                           ![e].output_acc = @ \o string,
                           ![e].calls = Append(@, "output_channel.append")]
    /\ UNCHANGED <<diagnostics_collection, last_closed, scan_vars, env_vars, unit_vars,
                   op_vars>>

\* child.on('close', retc => ...): the handler does not read retc; an
\* exception of the parser leaves it before diagnostics_collection.set
ChildClose(e, retc) ==
    /\ child[e].state \in {"running", "errored"}
    /\ LET st == Scan(child[e].output_acc)
       IN  /\ diagnostics_collection' =
                   IF st.threw THEN diagnostics_collection
                   ELSE DiagnosticCollection_set(diagnostics_collection,
                                                 st.diagnostics)
           /\ child' = [child EXCEPT
                           ![e].state = "closed",
                           ![e].calls =
                               IF st.threw THEN @
                               ELSE Append(@, "diagnostics_collection.set")]
    /\ last_closed' = e
    /\ UNCHANGED <<output_channel, scan_vars, env_vars, unit_vars, op_vars>>

\* ------------------------------------------------------------------------
\* Spec: calls of executeCommand with an interpreter that is a string, and
\* the events of their child processes, in every order
\* ------------------------------------------------------------------------
Shells == {wsl_bash, linux_osx_bash}
Commands == {"/r/alan build"}
Directories == {"/r/s"}
ExitCodes == {0, 1}

\* under the WSL interpreter the first chunk names the file c:/r/a.alan,
\* under any other the file /mnt/c/r/a.alan
Chunks ==
    { "/mnt/c/r/a.alan at 1:2 error: e1\n\tmore\n",
      "/x/c.alan at 0:1 error: z\n" }

\* the parser's own specification (SpecScan) is at rest
ScanIdle ==
    /\ scan_text = ""
    /\ scan_pc = "idle"
    /\ scan_lines = <<>>
    /\ scan_next = 0
    /\ scan_state = ScanStart

\* no operation of SpecOps is in progress
NoOp ==
    [name |-> "none", pc |-> "idle", result |-> "pending",
     shell |-> Undefined, probed |-> <<>>, alan_root |-> Undefined,
     migration_name |-> Undefined, migration_model |-> Undefined,
     migration_type |-> Undefined, prompts |-> <<>>, answers |-> 0,
     tasks |-> <<>>,
     options |-> [executable |-> Undefined, cwd |-> Undefined]]

\* the specifications of single functions are at rest
Idle == [pc |-> "idle"]

UnitsIdle ==
    /\ walk = Idle
    /\ conv = Idle
    /\ matched = Idle
    /\ chunked = Idle

OpsIdle ==
    /\ platform = "linux"
    /\ files = {}
    /\ workspace_root = Undefined
    /\ active_file = Undefined
    /\ models = Undefined
    /\ op = NoOp
    /\ notifications = 0

Init ==
    /\ output_channel = ""
    /\ diagnostics_collection = NoDiagnostics
    /\ ScanIdle
    /\ ExecIdle
    /\ OpsIdle
    /\ UnitsIdle
    /\ task_shell \in Shells

\* a call of executeCommand; the operations pass it the interpreter
\* configured for the session
ExecuteCommand(e) ==
    /\ child[e].state = "none"
    /\ \A f \in Execs : f < e => child[f].state # "none"
    /\ \E shell_command \in Commands, cwd \in Directories,
          outcome \in SpawnOutcomes :
           executeCommand(e, shell_command, cwd, task_shell, outcome)
    /\ UNCHANGED <<last_closed, scan_vars, env_vars, unit_vars, op_vars>>

Next ==
    \E e \in Execs :
        \/ ExecuteCommand(e)
        \/ ChildError(e)
        \/ \E data \in Chunks : StreamData(e, data)
        \/ \E retc \in ExitCodes : ChildClose(e, retc)

Spec == Init /\ [][Next]_vars

\* ------------------------------------------------------------------------
\* Properties of the task executor (checked under Spec)
\* ------------------------------------------------------------------------
Started(e) == child[e].state # "none"

\* e is the execution that was started last
LatestStarted(e) == Started(e) /\ \A f \in Execs : f > e => ~Started(f)

\* the step is the call of executeCommand for execution e
IsCall(e) == ~Started(e) /\ child'[e].state # "none"

FailureLine(e) ==
    "Failure executing command '" \o child[e].shell_command \o "'.\n"

UnableLine(e) ==
    "Unable to execute command '" \o child'[e].shell_command \o "'.\n"

\* the diagnostics a collection holds when the Diagnostics of one output
\* are installed in an empty collection
Installed(output_acc) ==
    DiagnosticCollection_set(NoDiagnostics, Scan(output_acc).diagnostics)

\* the calls an execution has made, and the state right after the call
C1_CallOrder ==
    \A e \in Execs :
        Started(e) =>
            /\ SubSeq(child[e].calls, 1, 4) =
                   <<"output_channel.clear", "output_channel.show",
                     "diagnostics_collection.clear", "proc.spawn">>
            /\ CountOf(child[e].calls, "proc.spawn") = 1
            /\ CountOf(child[e].calls, "output_channel.clear") = 1
            /\ CountOf(child[e].calls, "diagnostics_collection.clear") = 1

C1_CallStep ==
    \A e \in Execs :
        IsCall(e) =>
            /\ diagnostics_collection' = NoDiagnostics
            /\ output_channel' \in {"", UnableLine(e)}
            /\ child'[e].output_acc = ""

\* C1: every call of executeCommand first clears the output display, then
\* clears the diagnostics collection, then spawns one child process and no
\* second one; what the execution appends to the display or installs in the
\* collection comes after these; right after the call the collection is
\* empty and the display shows nothing written before the call.
C1_ClearsThenSpawns == []C1_CallOrder /\ [][C1_CallStep]_vars

\* C1 witness: a second call of executeCommand, made after the first
\* execution had closed and installed a Diagnostic, has emptied the
\* collection and the display and has spawned its child
C1_Witness ==
    /\ child[1].state = "closed"
    /\ ~Scan(child[1].output_acc).threw
    /\ Scan(child[1].output_acc).diagnostics # <<>>
    /\ child[2].state = "running"
    /\ ~child[2].overlapped
    /\ child[2].calls = <<"output_channel.clear", "output_channel.show",
                          "diagnostics_collection.clear", "proc.spawn">>
    /\ diagnostics_collection = NoDiagnostics
    /\ output_channel = ""

\* C2 (as claimed): for an execution that no other execution overlaps, the
\* collection is empty from the call until the close event, whatever output
\* arrives; the close handler writes the collection exactly once, and then
\* the collection holds exactly the Diagnostics parsed from the output
\* accumulated by this execution.
C2_RebuiltAtClose ==
    \A e \in Execs :
        (LatestStarted(e) /\ ~child[e].overlapped) =>
            /\ child[e].state \in {"running", "spawn_failed", "errored"}
                   => diagnostics_collection = NoDiagnostics
            /\ child[e].state = "closed" =>
                   /\ CountOf(child[e].calls, "diagnostics_collection.set") = 1
                   /\ diagnostics_collection = Installed(child[e].output_acc)

\* the executions whose child could not be spawned
SpawnFailed(e) ==
    \/ child[e].state \in {"spawn_failed", "errored", "no_child"}
    \/ /\ child[e].state = "closed"
       /\ CountOf(child[e].calls, "output_channel.appendLine") > 0

C7_FailedState ==
    \A e \in Execs :
        /\ child[e].state # "threw"
        /\ SpawnFailed(e) =>
               /\ child[e].output_acc = ""
               /\ child[e].state # "spawn_failed" =>
                      CountOf(child[e].calls, "output_channel.appendLine") = 1
               /\ (LatestStarted(e) /\ ~child[e].overlapped) =>
                      /\ diagnostics_collection = NoDiagnostics
                      /\ child[e].state = "errored" =>
                             output_channel = FailureLine(e)

C7_FailedStep ==
    \A e \in Execs :
        /\ (IsCall(e) /\ child'[e].state = "no_child") =>
               /\ output_channel' = UnableLine(e)
               /\ diagnostics_collection' = NoDiagnostics
        /\ (child[e].state = "spawn_failed" /\ child'[e].state # "spawn_failed")
               => /\ child'[e].state = "errored"
                  /\ output_channel' = output_channel \o FailureLine(e)
                  /\ diagnostics_collection' = diagnostics_collection
        /\ (child[e].state = "errored" /\ child'[e].state # "errored")
               => /\ child'[e].state = "closed"
                  /\ output_channel' = output_channel
                  /\ diagnostics_collection' = diagnostics_collection

C9_LastWriterWins ==
    \A e, f \in Execs :
        (/\ e # f
         /\ child[e].state = "closed" /\ child[f].state = "closed"
         /\ child[e].overlapped /\ child[f].overlapped
         /\ \A g \in Execs \ {e, f} : ~Started(g)
         /\ last_closed = e)
            => diagnostics_collection = Installed(child[e].output_acc)

\* ------------------------------------------------------------------------
\* SpecScan: the close handler's parser applied to bounded output texts,
\* one line of lines.forEach per step
\* ------------------------------------------------------------------------
ScanLines ==
    { "/x/foo.alan from 3:5 to 3:10 error: bad token",
      "/x/foo.alan from 4:2 to 2:7 warning: reversed",
      "/x/foo.alan at 10:1 warning: unused",
      "/x/foo.alan at 0:1 error: zero",
      "/x/foo.link error: broken",
      "C:/p/bar.alan info: note",
      "c:/p/bar.alan at 2:3 info: lower",
      "/x/a.alan error: in /x/b.alan warning: nested",
      "/x/foo.alan at 1:1 note: unknown",
      "\tsee also bar.alan",
      "compiling" }

RECURSIVE JoinLines(_)
JoinLines(ls) ==
    IF ls = <<>> THEN ""
    ELSE IF Len(ls) = 1 THEN ls[1]
    ELSE ls[1] \o "\n" \o JoinLines(Tail(ls))

ScanTexts ==
    {JoinLines(ls) : ls \in UNION {[1..n -> ScanLines] : n \in 0..MaxLines}}

InitScan ==
    /\ output_channel = ""
    /\ diagnostics_collection = NoDiagnostics
    /\ scan_text \in ScanTexts
    /\ scan_pc = "start"
    /\ scan_lines = <<>>
    /\ scan_next = 0
    /\ scan_state = ScanStart
    /\ ExecIdle
    /\ OpsIdle
    /\ UnitsIdle
    /\ task_shell = Undefined

\* const diagnostics = []; let current_diagnostic; const lines = ...
ScanBegin ==
    /\ scan_pc = "start"
    /\ scan_lines' = Split(scan_text)
    /\ scan_next' = 1
    /\ scan_state' = ScanStart
    /\ scan_pc' = "lines"
    /\ UNCHANGED <<output_channel, diagnostics_collection, scan_text,
                   exec_vars, env_vars, unit_vars, op_vars>>

\* one call of the forEach callback; an exception leaves the handler
ScanStep ==
    /\ scan_pc = "lines"
    /\ scan_next <= Len(scan_lines)
    /\ scan_state' = ScanLine(scan_state, scan_lines[scan_next])
    /\ scan_next' = scan_next + 1
    /\ scan_pc' = IF scan_state'.threw THEN "threw" ELSE "lines"
    /\ UNCHANGED <<output_channel, diagnostics_collection, scan_text,
                   scan_lines, exec_vars, env_vars, unit_vars, op_vars>>

\* diagnostics_collection.set(diagnostics)
ScanSet ==
    /\ scan_pc = "lines"
    /\ scan_next > Len(scan_lines)
    /\ diagnostics_collection' =
           DiagnosticCollection_set(diagnostics_collection,
                                    scan_state.diagnostics)
    /\ scan_pc' = "done"
    /\ UNCHANGED <<output_channel, scan_text, scan_lines, scan_next,
                   scan_state, exec_vars, env_vars, unit_vars, op_vars>>

NextScan == ScanBegin \/ ScanStep \/ ScanSet

SpecScan == InitScan /\ [][NextScan]_vars

\* ------------------------------------------------------------------------
\* Properties of the parser (checked under SpecScan)
\* ------------------------------------------------------------------------
\* the match of the first pattern, in the order of the tests, that matches
FirstMatch(line) ==
    LET range_match == re_range(line)
        locat_match == re_locat(line)
        link_match == re_link(line)
    IN  IF range_match.ok THEN range_match
        ELSE IF locat_match.ok THEN locat_match
        ELSE IF link_match.ok THEN link_match
        ELSE re_other(line)

Matches(line) == FirstMatch(line).ok

\* the groups of a match m: the path, the severity token, the message
CapturedPath(m) == m.g[1]
CapturedSeverity(m) == m.g[Len(m.g) - 1]
CapturedMessage(m) == m.g[Len(m.g)]

\* a step of the scan, and the line it handles
IsScanStep == scan_pc = "lines" /\ scan_next' = scan_next + 1
StepLine == scan_lines[scan_next]

ScanFinished == scan_pc \in {"done", "threw"}

\* the step appended one tuple holding one Diagnostic and changed nothing else
Created ==
    /\ Len(scan_state'.diagnostics) = Len(scan_state.diagnostics) + 1
    /\ SubSeq(scan_state'.diagnostics, 1, Len(scan_state.diagnostics))
           = scan_state.diagnostics
    /\ Len(scan_state'.diagnostics[Len(scan_state'.diagnostics)][2]) = 1

NewFile == scan_state'.diagnostics[Len(scan_state'.diagnostics)][1]
NewDiagnostic == scan_state'.diagnostics[Len(scan_state'.diagnostics)][2][1]

\* the Diagnostics of the scan, in scan order
AllDiagnostics(entries) == [i \in 1..Len(entries) |-> entries[i][2][1]]

\* C3 (as claimed): when the scan has ended, there is exactly one Diagnostic
\* for each line that matches one of the four patterns and none for any
\* other line, each Diagnostic is in the bucket of the path captured from
\* its own line and in no other bucket, and the Diagnostics of one file keep
\* their scan order.
C3_OneDiagnosticPerMatchingLine ==
    ScanFinished =>
        LET ml == SelectSeq(scan_lines, Matches)
            d  == scan_state.diagnostics
        IN  /\ Len(d) = Len(ml)
            /\ \A i \in 1..Len(d) :
                   /\ d[i][1] = UriFile(CapturedPath(FirstMatch(ml[i])))
                   /\ Len(d[i][2]) = 1
            /\ DOMAIN diagnostics_collection = EntryUris(d)
            /\ \A u \in EntryUris(d) :
                   diagnostics_collection[u] = DiagnosticsOf(d, u)

\* the match m of a range- or point-qualified line has more than 3 groups
Positioned(m) == Len(m.g) > 3

\* the two positions such a line names, less one
FirstPosition(m) == <<parseInt(m.g[2]) - 1, parseInt(m.g[3]) - 1>>

SecondPosition(m) ==
    IF Len(m.g) = 7 THEN <<parseInt(m.g[4]) - 1, parseInt(m.g[5]) - 1>>
    ELSE FirstPosition(m)

HasZeroCoordinate(m) ==
    /\ Positioned(m)
    /\ \E p \in {FirstPosition(m), SecondPosition(m)} : p[1] < 0 \/ p[2] < 0

RangeAsWritten(m) ==
    IF Positioned(m)
    THEN [start |-> FirstPosition(m), end |-> SecondPosition(m)]
    ELSE [start |-> <<0, 0>>, end |-> <<0, 0>>]

Precedes(a, b) == a[1] < b[1] \/ (a[1] = b[1] /\ a[2] <= b[2])

\* C4 (as claimed): the Diagnostic a line produces has the range written
\* on the line: start (L1-1, C1-1) and end (L2-1, C2-1) for a range-qualified
\* line, both (L-1, C-1) for a point-qualified line, (0,0)-(0,0) for a link
\* or generic line; its file is the captured path and its message the
\* captured message.
C4_RangeAsWritten ==
    [][LET m == FirstMatch(StepLine)
       IN  (IsScanStep /\ m.ok /\ ~scan_state'.threw) =>
               /\ Created
               /\ NewDiagnostic.range = RangeAsWritten(m)
               /\ NewFile = UriFile(CapturedPath(m))
               /\ NewDiagnostic.message = CapturedMessage(m)]_vars

\* C4 (amended): a matching line with no 0 among its coordinates produces
\* one Diagnostic whose range has the two positions written on the line,
\* start being the earlier and end the later of them (so the range is as
\* written unless the line names its end before its start); a link or
\* generic line gives (0,0)-(0,0); file and message are the captured ones.
\* A matching line with a 0 coordinate produces no Diagnostic: building
\* its range throws and the scan ends there.
C4_RangeOrdered ==
    [][LET m == FirstMatch(StepLine)
           a == RangeAsWritten(m).start
           b == RangeAsWritten(m).end
       IN  (IsScanStep /\ m.ok) =>
               IF HasZeroCoordinate(m)
               THEN /\ scan_state'.threw
                    /\ scan_state'.diagnostics = scan_state.diagnostics
               ELSE /\ Created
                    /\ ~scan_state'.threw
                    /\ NewDiagnostic.range =
                           IF Precedes(a, b) THEN [start |-> a, end |-> b]
                           ELSE [start |-> b, end |-> a]
                    /\ NewFile = UriFile(CapturedPath(m))
                    /\ NewDiagnostic.message = CapturedMessage(m)]_vars

\* C4 witness: a scan that produced the Diagnostics of a range-qualified
\* line written end before start and of a point-qualified line
C4_Witness ==
    /\ scan_pc = "done"
    /\ scan_lines = <<"/x/foo.alan from 4:2 to 2:7 warning: reversed",
                      "/x/foo.alan at 10:1 warning: unused",
                      "/x/foo.link error: broken">>
    /\ Len(scan_state.diagnostics) = 3

\* ------------------------------------------------------------------------
IndexOf(s, w) ==
    LET is == {i \in 1..Len(s) : StartsWithAt(s, i, w)}
    IN  IF is = {} THEN 0 ELSE Min(is)

ReplaceFirst(s, w, by) ==
    IF IndexOf(s, w) = 0 THEN s
    ELSE SubSeq(s, 1, IndexOf(s, w) - 1) \o by
             \o SubSeq(s, IndexOf(s, w) + Len(w), Len(s))

\* a line of one of the four shapes whose severity token is 'note',
\* a token that is none of error, warning, info
UnknownTokenLine(line) ==
    /\ IndexOf(line, " note: ") # 0
    /\ ~Matches(line)
    /\ Matches(ReplaceFirst(line, " note: ", " info: "))

SeverityOfToken(token) ==
    CASE token = "error" -> "Error"
      [] token = "warning" -> "Warning"
      [] OTHER -> "Information"

TabLine(line) == ~Matches(line) /\ StartsWithAt(line, 1, "\t")

\* what a tab line does in one step of the scan, and the example
C6_ContinuationStep ==
    (IsScanStep /\ TabLine(StepLine)) =>
        LET d == scan_state.diagnostics
            n == Len(scan_state.diagnostics)
        IN  IF n = 0 THEN scan_state' = scan_state
            ELSE /\ Len(scan_state'.diagnostics) = n
                 /\ \A i \in 1..(n - 1) : scan_state'.diagnostics[i] = d[i]
                 /\ scan_state'.diagnostics[n][1] = d[n][1]
                 /\ scan_state'.diagnostics[n][2] =
                        <<[d[n][2][1] EXCEPT
                              !.message = @ \o "\n" \o StepLine]>>

C6_Example ==
    (/\ scan_pc = "done"
     /\ scan_lines \in {<<"/x/foo.link error: broken", "\tsee also bar.alan">>,
                        <<"/x/foo.link error: broken", "compiling",
                          "\tsee also bar.alan">>})
        => scan_state.diagnostics =
               <<<<"/x/foo.link",
                   <<Diagnostic(Range(0, 0, 0, 0),
                                "broken\n\tsee also bar.alan", "Error")>>>>>>

\* C6: a line that matches no pattern and begins with a tab is appended,
\* after a newline and with its tab, to the message of the Diagnostic
\* created last in the scan and changes nothing else, whatever lines lie
\* between the two; before the first Diagnostic of the scan it changes
\* nothing; the two lines '/x/foo.link error: broken' and
\* '<tab>see also bar.alan' yield the message
\* 'broken', newline, '<tab>see also bar.alan'.
C6_ContinuationAttachesToLatest ==
    []C6_Example /\ [][C6_ContinuationStep]_vars

\* C6 witness: a tab line, after a line that is no diagnostic, was appended
\* to the Diagnostic before that line
C6_Witness ==
    /\ scan_pc = "done"
    /\ scan_lines = <<"/x/foo.link error: broken", "compiling",
                      "\tsee also bar.alan">>
    /\ scan_state.diagnostics[1][2][1].message = "broken\n\tsee also bar.alan"

\* ------------------------------------------------------------------------
\* The operations: build, package_deployment, generateMigration and
\* getTasksList (SpecOps).  One operation runs in an environment chosen by
\* the initial state; every await is a step.
\* ------------------------------------------------------------------------
Operations == {"build", "package_deployment", "generateMigration",
               "getTasksList"}

\* the characters sanitize removes from a file name
IllegalChars == {"/", "?", "<", ">", "\\", ":", "*", "|", "\""}

RECURSIVE sanitize(_)
sanitize(input) ==
    IF input = "" THEN ""
    ELSE (IF Char(input, 1) \in IllegalChars THEN "" ELSE SubSeq(input, 1, 1))
             \o sanitize(Tail(input))

migration_type_bootstrap == "initialization from empty dataset"
migration_type_mapping == "mapping from target conformant dataset"

\* what the user types in the input box that offers 'from_empty'
NameAnswers == {"from_empty", "a/b"}

\* an exception in the body of an operation: getTasksList catches it and
\* returns the empty list, the other operations reject
Thrown(o) ==
    IF o.name = "getTasksList"
    THEN [o EXCEPT !.pc = "settled", !.result = "fulfilled", !.tasks = <<>>]
    ELSE [o EXCEPT !.pc = "settled", !.result = "rejected"]

\* the operation is called
Invoke(name) ==
    /\ op.pc = "idle"
    /\ op' = IF name = "getTasksList" /\ workspace_root = Undefined
             THEN [op EXCEPT !.name = name, !.pc = "settled",
                             !.result = "fulfilled", !.tasks = <<>>]
             ELSE [op EXCEPT !.name = name, !.pc = "resolveBashShell"]
    /\ UNCHANGED <<output_channel, diagnostics_collection, scan_vars,
                   exec_vars, env_vars, unit_vars, notifications>>

\* const shell = await resolveBashShell(); then the file name of the
\* active editor is read: without an active editor that is a TypeError
ResolveBashShell ==
    /\ op.pc = "resolveBashShell"
    /\ LET r == resolveBashShell(task_shell, platform, files)
       IN  /\ notifications' = notifications + (IF r.error THEN 1 ELSE 0)
           /\ op' = IF active_file = Undefined
                    THEN Thrown([op EXCEPT !.shell = r.shell,
                                           !.probed = r.probed])
                    ELSE [op EXCEPT !.shell = r.shell,
                                    !.probed = r.probed,
                                    !.pc = "resolveAlanRoot"]
    /\ UNCHANGED <<output_channel, diagnostics_collection, scan_vars,
                   exec_vars, env_vars, unit_vars>>

AfterRoot(name) ==
    IF name = "generateMigration" THEN "getMigrationName"
    ELSE IF name = "getTasksList" THEN "tasks"
    ELSE "executeCommand"

\* const alan_root = await resolveAlanRoot(active_file_dirname)
ResolveAlanRoot ==
    /\ op.pc = "resolveAlanRoot"
    /\ LET r == resolveAlanRoot(dirname(active_file, platform), files,
                                platform)
       IN  op' = IF r.settled = "resolved"
                 THEN [op EXCEPT !.alan_root = r.value,
                                 !.pc = AfterRoot(op.name)]
                 ELSE IF r.settled = "rejected" THEN Thrown(op)
                 ELSE [op EXCEPT !.pc = "pending"]
    /\ UNCHANGED <<output_channel, diagnostics_collection, scan_vars,
                   exec_vars, env_vars, unit_vars, notifications>>

\* getMigrationName(shell, alan_root) is called: the input box opens
ShowMigrationName ==
    /\ op.pc = "getMigrationName"
    /\ op' = [op EXCEPT !.prompts = Append(@, "name"), !.pc = "name_open"]
    /\ UNCHANGED <<output_channel, diagnostics_collection, scan_vars,
                   exec_vars, env_vars, unit_vars, notifications>>

\* the input box is answered: sanitize throws on a dismissed input box,
\* inside the callback, and the promise of getMigrationName is never
\* resolved
GetMigrationName ==
    /\ op.pc = "name_open"
    /\ \E migration_name_raw \in NameAnswers \cup {Undefined} :
           op' = IF migration_name_raw = Undefined
                 THEN [op EXCEPT !.answers = @ + 1, !.pc = "pending"]
                 ELSE [op EXCEPT
                          !.answers = @ + 1,
                          !.migration_name =
                              pathToBashPath(op.alan_root \o "/migrations/"
                                  \o sanitize(migration_name_raw), op.shell),
                          !.pc = "getMigrationModel"]
    /\ UNCHANGED <<output_channel, diagnostics_collection, scan_vars,
                   exec_vars, env_vars, unit_vars, notifications>>

\* getMigrationModel(shell, alan_root) is called: readdirSync throws inside
\* the promise's executor when <root>/systems cannot be read; otherwise the
\* pick list opens
ShowMigrationModel ==
    /\ op.pc = "getMigrationModel"
    /\ op' = IF models = Undefined THEN Thrown(op)
             ELSE [op EXCEPT !.prompts = Append(@, "model"),
                             !.pc = "model_open"]
    /\ UNCHANGED <<output_channel, diagnostics_collection, scan_vars,
                   exec_vars, env_vars, unit_vars, notifications>>

\* the pick list is answered; a dismissed pick is formatted as 'undefined'
GetMigrationModel ==
    /\ op.pc = "model_open"
    /\ \E migration_model \in
              {models[i] : i \in 1..Len(models)} \cup {Undefined} :
           op' = [op EXCEPT
                     !.answers = @ + 1,
                     !.migration_model =
                         pathToBashPath(op.alan_root \o "/systems/"
                             \o (IF migration_model = Undefined
                                 THEN "undefined" ELSE migration_model),
                             op.shell),
                     !.pc = "getMigrationType"]
    /\ UNCHANGED <<output_channel, diagnostics_collection, scan_vars,
                   exec_vars, env_vars, unit_vars, notifications>>

\* getMigrationType() is called: the pick list opens
ShowMigrationType ==
    /\ op.pc = "getMigrationType"
    /\ op' = [op EXCEPT !.prompts = Append(@, "type"), !.pc = "type_open"]
    /\ UNCHANGED <<output_channel, diagnostics_collection, scan_vars,
                   exec_vars, env_vars, unit_vars, notifications>>

\* the pick list is answered
GetMigrationType ==
    /\ op.pc = "type_open"
    /\ \E migration_type \in {migration_type_bootstrap,
                              migration_type_mapping, Undefined} :
           op' = [op EXCEPT
                     !.answers = @ + 1,
                     !.migration_type =
                         IF migration_type = migration_type_bootstrap
                         THEN "--bootstrap" ELSE "",
                     !.pc = "executeCommand"]
    /\ UNCHANGED <<output_channel, diagnostics_collection, scan_vars,
                   exec_vars, env_vars, unit_vars, notifications>>

\* the command line and the working directory the operation passes to
\* executeCommand
CommandOf(o, file_name, plat) ==
    IF o.name = "build"
    THEN [shell_command |->
              pathToBashPath(o.alan_root \o "/alan", o.shell) \o " build",
          cwd |-> dirname(file_name, plat)]
    ELSE IF o.name = "package_deployment"
    THEN [shell_command |->
              "./alan package ./dist/project.pkg "
                  \o pathToBashPath(dirname(file_name, plat), o.shell),
          cwd |-> o.alan_root]
    ELSE [shell_command |->
              pathToBashPath(o.alan_root, o.shell)
                  \o "/.alan/dataenv/system-types/datastore/scripts/generate_migration.sh "
                  \o o.migration_name \o " " \o o.migration_model \o " "
                  \o o.migration_type,
          cwd |-> dirname(file_name, plat)]

\* executeCommand(...) at the end of build, package_deployment and
\* generateMigration
Execute ==
    /\ op.pc = "executeCommand"
    /\ child[1].state = "none"
    /\ \E outcome \in SpawnOutcomes :
           LET c == CommandOf(op, active_file, platform)
           IN  /\ executeCommand(1, c.shell_command, c.cwd, op.shell, outcome)
               /\ op' = IF SpawnResult(op.shell, outcome) = "threw"
                        THEN Thrown(op)
                        ELSE [op EXCEPT !.pc = "settled",
                                        !.result = "fulfilled"]
    /\ UNCHANGED <<last_closed, scan_vars, env_vars, unit_vars, notifications>>

\* a catalog whose package task ignores the case of the file name
TasksOf_AnyCase(alan, file_name, plat) ==
    <<[task |-> "fetch", commandLine |-> alan \o " fetch"],
      [task |-> "build", commandLine |-> "${command:alan.tasks.build}"],
      [task |-> "generate migration",
       commandLine |-> "${command:alan.tasks.generateMigration}"]>>
        \o (IF basename(file_name, plat)
                  \in {"connections.alan", "Connections.alan"}
            THEN <<[task |-> "package",
                    commandLine |-> "${command:alan.tasks.package}"]>>
            ELSE <<>>)

\* the tasks getTasksList builds, in the order it pushes them; they share
\* the one object default_options
TasksOf(alan, file_name, plat) ==
    <<[task |-> "fetch", commandLine |-> alan \o " fetch"],
      [task |-> "build", commandLine |-> "${command:alan.tasks.build}"],
      [task |-> "generate migration",
       commandLine |-> "${command:alan.tasks.generateMigration}"]>>
        \o (IF basename(file_name, plat) = "connections.alan"
            THEN <<[task |-> "package",
                    commandLine |-> "${command:alan.tasks.package}"]>>
            ELSE <<>>)

\* the body of getTasksList after the awaits
ListTasks ==
    /\ op.pc = "tasks"
    /\ LET alan_root_folder == pathToBashPath(op.alan_root, op.shell)
           alan == pathToBashPath(op.alan_root \o "/alan", op.shell)
           result == TasksOf(alan, active_file, platform)
       IN  op' = [op EXCEPT
                     !.pc = "settled",
                     !.result = "fulfilled",
                     !.tasks = result,
                     !.options =
                         [executable |-> op.shell,
                          cwd |-> IF Len(result) = 4 THEN alan_root_folder
                                  ELSE "${fileDirname}"]]
    /\ UNCHANGED <<output_channel, diagnostics_collection, scan_vars,
                   exec_vars, env_vars, unit_vars, notifications>>

\* the environments of SpecOps
ConfiguredShells == {Undefined, "", "/bin/zsh"}

LinuxFiles == {"/r/s/alan", "/r/alan", "/alan"}
LinuxActiveFiles ==
    {Undefined, "/r/s/connections.alan", "/r/s/Connections.alan",
     "/r/s/app.alan"}

WindowsFiles == {wsl, git_bash_x64, git_bash_x32, "c:\\r\\alan"}
WindowsActiveFiles == {Undefined, "c:\\r\\s\\connections.alan"}

ModelLists(plat) == {Undefined, <<>>, <<join("m", "model.lib.link", plat)>>}

InitOps ==
    /\ output_channel = ""
    /\ diagnostics_collection = NoDiagnostics
    /\ ScanIdle
    /\ ExecIdle
    /\ platform \in {"linux", "win32"}
    /\ task_shell \in ConfiguredShells
    /\ files \in SUBSET (IF platform = "win32" THEN WindowsFiles
                         ELSE LinuxFiles)
    /\ workspace_root \in
           {Undefined, IF platform = "win32" THEN "c:\\r" ELSE "/r"}
    /\ active_file \in (IF platform = "win32" THEN WindowsActiveFiles
                        ELSE LinuxActiveFiles)
    /\ models \in ModelLists(platform)
    /\ op = NoOp
    /\ notifications = 0
    /\ UnitsIdle

NextOps ==
    \/ \E name \in Operations : Invoke(name)
    \/ ResolveBashShell
    \/ ResolveAlanRoot
    \/ ShowMigrationName
    \/ GetMigrationName
    \/ ShowMigrationModel
    \/ GetMigrationModel
    \/ ShowMigrationType
    \/ GetMigrationType
    \/ Execute
    \/ ListTasks

SpecOps == InitOps /\ [][NextOps]_vars

\* ------------------------------------------------------------------------
\* Properties of the operations (checked under SpecOps)
\* ------------------------------------------------------------------------
Runs(name) == op.name = name

Settled == op.pc = "settled"

\* the shell resolver has run and found no interpreter
NoInterpreter ==
    /\ op.name \in {"build", "package_deployment", "generateMigration"}
    /\ op.pc \notin {"idle", "resolveBashShell"}
    /\ op.shell = Undefined

\* C8 (as claimed): when the shell resolver yields no interpreter, an error
\* notification is shown and build, package_deployment and generateMigration
\* end without an exception, without a child process and without a call of
\* executeCommand (whose first calls are the ones child[1].calls records).
\* The project root has been found, so that nothing but the missing
\* interpreter is in the operation's way.
C8_AbortsWithoutInterpreter ==
    (NoInterpreter /\ op.alan_root # Undefined)
        => /\ notifications = 1
           /\ op.result # "rejected"
           /\ child[1].state = "none"
           /\ child[1].calls = <<>>

TaskNames == [i \in 1..Len(op.tasks) |-> op.tasks[i].task]

RootRejects ==
    resolveAlanRoot(dirname(active_file, platform), files, platform).settled
        = "rejected"

LinuxStartDirs == {"/r/s/t/u", "/r/s", "/r", "/", ".", "a"}
WindowsStartDirs == {"c:\\r\\s", "c:\\"}

LinuxMarkers == {"/alan", "/r/alan", "/r/s/alan", "/r/s/t/u/alan", "alan"}
WindowsMarkers == {"c:\\alan", "c:\\r\\alan"}

InitRoot ==
    /\ output_channel = ""
    /\ diagnostics_collection = NoDiagnostics
    /\ ScanIdle
    /\ ExecIdle
    /\ platform \in {"linux", "win32"}
    /\ task_shell = Undefined
    /\ files \in SUBSET (IF platform = "win32" THEN WindowsMarkers
                         ELSE LinuxMarkers)
    /\ workspace_root = Undefined
    /\ active_file = Undefined
    /\ models = Undefined
    /\ op = NoOp
    /\ notifications = 0
    /\ \E file_dir \in (IF platform = "win32" THEN WindowsStartDirs
                        ELSE LinuxStartDirs) :
           walk = [pc |-> "call", file_dir |-> file_dir, root |-> Undefined,
                   curdir |-> Undefined, settled |-> "pending",
                   value |-> Undefined, settlements |-> 0,
                   examined |-> <<>>, revisited |-> FALSE]
    /\ conv = Idle
    /\ matched = Idle
    /\ chunked = Idle

\* const {root} = path.parse(file_dir); find is called with file_dir
RootCall ==
    /\ walk.pc = "call"
    /\ walk' = [walk EXCEPT !.pc = "find",
                            !.root = ParseRoot(walk.file_dir, platform),
                            !.curdir = walk.file_dir]
    /\ UNCHANGED <<program_vars, conv, matched, chunked>>

\* exists(alan_file) is asked for the directory curdir
Examine(w) ==
    IF \E i \in 1..Len(w.examined) : w.examined[i] = w.curdir
    THEN [w EXCEPT !.revisited = TRUE]
    ELSE [w EXCEPT !.examined = Append(@, w.curdir)]

\* one call of find(curdir)
FindStep ==
    /\ walk.pc = "find"
    /\ LET alan_file == join(walk.curdir, "alan", platform)
       IN  walk' =
               IF walk.curdir = walk.root
               THEN [walk EXCEPT !.pc = "settled", !.settled = "rejected",
                                 !.settlements = @ + 1]
               ELSE IF alan_file \notin files
               THEN [Examine(walk) EXCEPT
                        !.curdir = dirname(walk.curdir, platform)]
               ELSE [Examine(walk) EXCEPT
                        !.pc = "settled", !.settled = "resolved",
                        !.value = walk.curdir, !.settlements = @ + 1]
    /\ UNCHANGED <<program_vars, conv, matched, chunked>>

NextRoot == RootCall \/ FindStep

SpecRoot == InitRoot /\ [][NextRoot]_vars

\* ------------------------------------------------------------------------
\* Properties of the project-root locator (checked under SpecRoot)
\* ------------------------------------------------------------------------
\* dir and its ancestors, nearest first
RECURSIVE Ancestors(_, _)
Ancestors(dir, plat) ==
    IF dirname(dir, plat) = dir THEN <<dir>>
    ELSE <<dir>> \o Ancestors(dirname(dir, plat), plat)

HasMarker(dir) == join(dir, "alan", platform) \in files

\* the directories among startDir and its ancestors that hold the marker,
\* nearest first
MarkedAncestors(dir) == SelectSeq(Ancestors(dir, platform), HasMarker)

\* C11 (as claimed): resolveAlanRoot(startDir) resolves to the nearest of
\* startDir and its ancestors that contains the marker file 'alan' whenever
\* one of them contains it, the filesystem root included, and rejects only
\* when none of them contains it.
C11_NearestMarkedAncestor ==
    walk.pc = "settled" =>
        IF MarkedAncestors(walk.file_dir) # <<>>
        THEN /\ walk.settled = "resolved"
             /\ walk.value = MarkedAncestors(walk.file_dir)[1]
        ELSE walk.settled = "rejected"

\* C16 (as claimed): resolveAlanRoot settles at most once, every call of
\* find moves to a strictly shorter directory, and no directory is examined
\* twice, so that the walk ends.
C16_WalkShrinks ==
    [][/\ walk'.settlements <= 1
       /\ ~walk'.revisited
       /\ (walk.pc = "find" /\ walk'.pc = "find") =>
              Len(walk'.curdir) < Len(walk.curdir)]_vars

\* ------------------------------------------------------------------------
\* Properties of the shell resolver (checked under SpecOps)
\* ------------------------------------------------------------------------
\* resolveBashShell has returned to the operation
ShellResolved ==
    /\ op.pc \notin {"idle", "resolveBashShell"}
    /\ ~(op.name = "getTasksList" /\ workspace_root = Undefined)

\* the interpreter that belongs to a file of the probe list
InterpreterOf(probe) == IF probe = wsl THEN wsl_bash ELSE probe

ExistingProbes ==
    SelectSeq(<<wsl, git_bash_x64, git_bash_x32>>, LAMBDA f : f \in files)

\* C12: resolveBashShell returns the configured value unchanged when it is
\* a non-empty string, on every platform and without probing; otherwise on
\* Windows the interpreter of the first existing file of the probe list
\* (WSL launcher, 64-bit Git bash, 32-bit Git bash), and undefined with an
\* error notification when none exists; otherwise '/bin/bash' without
\* probing.  No error notification is shown in any other case.
C12_ResolvedShell ==
    ShellResolved =>
        IF task_shell \notin {Undefined, ""}
        THEN /\ op.shell = task_shell
             /\ op.probed = <<>>
             /\ notifications = 0
        ELSE IF platform = "win32"
        THEN IF ExistingProbes = <<>>
             THEN op.shell = Undefined /\ notifications = 1
             ELSE /\ op.shell = InterpreterOf(ExistingProbes[1])
                  /\ notifications = 0
                  /\ op.probed[Len(op.probed)] = ExistingProbes[1]
        ELSE /\ op.shell = linux_osx_bash
             /\ op.probed = <<>>
             /\ notifications = 0

\* C12 witness: on Windows, with no setting, without the WSL launcher and
\* with both Git interpreters, the 64-bit one was returned
C12_Witness ==
    /\ ShellResolved
    /\ platform = "win32"
    /\ task_shell = ""
    /\ files = {git_bash_x64, git_bash_x32}
    /\ op.shell = git_bash_x64
    /\ op.probed = <<wsl, git_bash_x64>>
    /\ notifications = 0

\* ------------------------------------------------------------------------
\* SpecPaths: pathToBashPath applied to a path, then bashPathsToWinPaths
\* applied to the result
\* ------------------------------------------------------------------------
Drives == {"", "c:", "C:", "D:"}

Remainders ==
    {"", "\\", "\\a", "\\r\\s\\a.alan", "\\Program Files\\a b", "/r/s",
     "\\p\\q:r", "/x/a:b"}

Paths == {d \o r : d \in Drives, r \in Remainders}

Interpreters == {wsl_bash, git_bash_x64, linux_osx_bash, Undefined}

InitPaths ==
    /\ output_channel = ""
    /\ diagnostics_collection = NoDiagnostics
    /\ ScanIdle
    /\ ExecIdle
    /\ OpsIdle
    /\ task_shell = Undefined
    /\ \E path \in Paths, shell \in Interpreters :
           conv = [pc |-> "path", path |-> path, shell |-> shell,
                   bash |-> Undefined, win |-> Undefined]
    /\ walk = Idle
    /\ matched = Idle
    /\ chunked = Idle

\* pathToBashPath(path, shell)
ToBashPath ==
    /\ conv.pc = "path"
    /\ conv' = [conv EXCEPT !.pc = "bash",
                            !.bash = pathToBashPath(conv.path, conv.shell)]
    /\ UNCHANGED <<program_vars, walk, matched, chunked>>

\* bashPathsToWinPaths(string, shell) of the converted path
ToWinPath ==
    /\ conv.pc = "bash"
    /\ conv' = [conv EXCEPT !.pc = "win",
                            !.win = bashPathsToWinPaths(conv.bash, conv.shell)]
    /\ UNCHANGED <<program_vars, walk, matched, chunked>>

NextPaths == ToBashPath \/ ToWinPath

SpecPaths == InitPaths /\ [][NextPaths]_vars

\* ------------------------------------------------------------------------
\* Properties of the path normalizer (checked under SpecPaths)
\* ------------------------------------------------------------------------
\* the positions of path where a letter is followed by a colon
DriveSpecifiers(path) ==
    {i \in 1..(Len(path) - 1) :
        Char(path, i) \in Letter /\ Char(path, i + 1) = ":"}

HasChar(path, c) == \E i \in 1..Len(path) : Char(path, i) = c

\* a path with a single drive letter specifier, backslash separators and
\* no spaces
WindowsPath(path) ==
    /\ DriveSpecifiers(path) = {1}
    /\ HasChar(path, "\\")
    /\ ~HasChar(path, "/")
    /\ ~HasChar(path, " ")

\* C13 (as claimed): for a path with a single drive letter specifier,
\* backslash separators and no spaces, converting to the WSL form and back
\* gives the path itself.
C13_RoundTrip ==
    (conv.pc = "win" /\ isWsl(conv.shell) /\ WindowsPath(conv.path))
        => conv.win = conv.path

\* the path with every backslash made a slash and every space escaped
Slashed(path) == ReplaceAllChar(ReplaceAllChar(path, "\\", "/"), " ", "\\ ")

\* C14 (as claimed): pathToBashPath rewrites only a leading drive
\* specifier, under the WSL interpreter to '/mnt/' and the lowercase drive
\* letter and not at all under another interpreter; the rest of the result
\* is the input with every backslash replaced by a slash and every space
\* preceded by a backslash; a letter and a colon elsewhere stay.
C14_LeadingDriveOnly ==
    conv.pc = "bash" =>
        conv.bash =
            IF isWsl(conv.shell) /\ 1 \in DriveSpecifiers(conv.path)
            THEN "/mnt/" \o LowerCase(Char(conv.path, 1))
                     \o Slashed(SubSeq(conv.path, 3, Len(conv.path)))
            ELSE Slashed(conv.path)

\* ------------------------------------------------------------------------
\* SpecMatch: the four patterns applied to one line, and the Diagnostic the
\* forEach callback makes of it
\* ------------------------------------------------------------------------
LineHeads == {"/x/a.alan", "/x/a.link", "C:/p/b.alan"}
LineQualifiers == {"", " at 1:2", " from 1:2 to 3:4"}
LineSeverities == {" error: ", " info: "}
LineMessages ==
    {"m", "see /y/b.alan warning: w", "in /y/c.alan at 5:6 error: e",
     "x.link info: i"}

MatchLines ==
    {h \o q \o v \o t : h \in LineHeads, q \in LineQualifiers,
                        v \in LineSeverities, t \in LineMessages}
        \cup {"compiling", "\tmore"}

InitMatch ==
    /\ output_channel = ""
    /\ diagnostics_collection = NoDiagnostics
    /\ ScanIdle
    /\ ExecIdle
    /\ OpsIdle
    /\ task_shell = Undefined
    /\ \E line \in MatchLines :
           matched = [pc |-> "line", line |-> line, range |-> NoMatch,
                      locat |-> NoMatch, link |-> NoMatch, other |-> NoMatch,
                      diagnostics |-> <<>>]
    /\ walk = Idle
    /\ conv = Idle
    /\ chunked = Idle

\* line.match(...) for each pattern, and the callback on a fresh scan
MatchLine ==
    /\ matched.pc = "line"
    /\ matched' = [matched EXCEPT
                      !.pc = "matched",
                      !.range = re_range(matched.line),
                      !.locat = re_locat(matched.line),
                      !.link = re_link(matched.line),
                      !.other = re_other(matched.line),
                      !.diagnostics =
                          ScanLine(ScanStart, matched.line).diagnostics]
    /\ UNCHANGED <<program_vars, walk, conv, chunked>>

NextMatch == MatchLine

SpecMatch == InitMatch /\ [][NextMatch]_vars

\* ------------------------------------------------------------------------
\* Properties of the patterns (checked under SpecMatch)
\* ------------------------------------------------------------------------
MatchCount ==
    Cardinality({p \in {"range", "locat", "link", "other"} : matched[p].ok})

\* the places of line where a severity token ' error: ', ' warning: ' or
\* ' info: ' stands
SeverityTokens(line) ==
    {i \in 1..Len(line) :
        \E v \in {" error: ", " warning: ", " info: "} :
            StartsWithAt(line, i, v)}

\* the Diagnostics each matching pattern would give on its own
DiagnosticsOfPatterns ==
    (IF matched.range.ok
     THEN {RangeBranch(ScanStart, matched.range).diagnostics} ELSE {})
    \cup (IF matched.locat.ok
          THEN {LocatBranch(ScanStart, matched.locat).diagnostics} ELSE {})
    \cup (IF matched.link.ok
          THEN {PlainBranch(ScanStart, matched.link).diagnostics} ELSE {})
    \cup (IF matched.other.ok
          THEN {PlainBranch(ScanStart, matched.other).diagnostics} ELSE {})

\* the Diagnostic of the first matching pattern in the order range, point,
\* link, generic
DiagnosticsOfFirst ==
    IF matched.range.ok THEN RangeBranch(ScanStart, matched.range).diagnostics
    ELSE IF matched.locat.ok
    THEN LocatBranch(ScanStart, matched.locat).diagnostics
    ELSE IF matched.link.ok
    THEN PlainBranch(ScanStart, matched.link).diagnostics
    ELSE IF matched.other.ok
    THEN PlainBranch(ScanStart, matched.other).diagnostics
    ELSE <<>>

\* C15 (as claimed): no line matches more than one of the four patterns,
\* so the Diagnostic of a line is the same whichever pattern is tested
\* first.
C15_MutuallyExclusive ==
    matched.pc = "matched" =>
        /\ MatchCount <= 1
        /\ Cardinality(DiagnosticsOfPatterns) <= 1

\* C15 (amended): a line with a single severity token matches at most one
\* pattern; a line whose message contains a further severity token may
\* match several, and the Diagnostic of a line is the one of the first
\* matching pattern in the order range, point, link, generic.
C15_FirstPatternWins ==
    matched.pc = "matched" =>
        /\ MatchCount > 1 => Cardinality(SeverityTokens(matched.line)) > 1
        /\ matched.diagnostics = DiagnosticsOfFirst

\* C15 witness: a point-qualified line whose message holds a generic
\* diagnostic matched two patterns that give different Diagnostics, and
\* the Diagnostic made is the point-qualified one
C15_Witness ==
    /\ matched.pc = "matched"
    /\ matched.line = "/x/a.alan at 1:2 error: see /y/b.alan warning: w"
    /\ matched.locat.ok /\ matched.other.ok
    /\ Cardinality(DiagnosticsOfPatterns) = 2
    /\ matched.diagnostics[1][1] = "/x/a.alan"
    /\ matched.diagnostics[1][2][1].severity = "Error"

\* ------------------------------------------------------------------------
\* Properties of generateMigration (checked under SpecOps)
\* ------------------------------------------------------------------------
IsPrefix(a, b) == Len(a) <= Len(b) /\ a = SubSeq(b, 1, Len(a))

\* executeCommand was called by the operation
Invoked == child[1].state # "none"

\* the prompts come in order, one at a time, and the script is invoked at
\* most once and after the three answers
PipelineOrder ==
    Runs("generateMigration") =>
        /\ IsPrefix(op.prompts, <<"name", "model", "type">>)
        /\ Len(op.prompts) - op.answers \in {0, 1}
        /\ CountOf(child[1].calls, "proc.spawn") <= 1
        /\ Invoked => op.answers = 3

\* the operation waits for a promise that nothing will ever settle
Halted == op.pc = "pending"

\* C17 (as claimed): generateMigration issues the name prompt, the model
\* prompt and the type prompt in that order, each after the answer to the
\* one before and never two at once, and invokes the script once and after
\* the three answers; once the root is resolved and a prompt is answered,
\* by a value or by a dismissal, the operation goes on to the next step
\* and does not halt before the invocation (the directory <root>/systems
\* being readable).
C17_PipelineCompletes ==
    /\ PipelineOrder
    /\ (Runs("generateMigration") /\ op.answers > 0 /\ models # Undefined)
           => ~Halted

\* ------------------------------------------------------------------------
\* SpecChunks: one output text of the child, delivered to the 'data'
\* handler in two chunks cut at any place
\* ------------------------------------------------------------------------
OutputTexts ==
    {"/mnt/c/r/a.alan at 1:2 error: e\n", "see /mnt/d/x\n\tmore\n"}

InitChunks ==
    /\ output_channel = ""
    /\ diagnostics_collection = NoDiagnostics
    /\ ScanIdle
    /\ ExecIdle
    /\ OpsIdle
    /\ task_shell = Undefined
    /\ \E text \in OutputTexts, shell \in {wsl_bash, linux_osx_bash} :
           \E cut \in 0..Len(text) :
               chunked = [pc |-> "start", text |-> text, cut |-> cut,
                          shell |-> shell, output_acc |-> ""]
    /\ walk = Idle
    /\ conv = Idle
    /\ matched = Idle

\* the 'data' handler on the first chunk
FirstChunk ==
    /\ chunked.pc = "start"
    /\ LET data == SubSeq(chunked.text, 1, chunked.cut)
           string == bashPathsToWinPaths(data, chunked.shell)
       IN  chunked' = [chunked EXCEPT !.pc = "one",
                                      !.output_acc = @ \o string]
    /\ UNCHANGED <<program_vars, walk, conv, matched>>

\* the 'data' handler on the second chunk
SecondChunk ==
    /\ chunked.pc = "one"
    /\ LET data == SubSeq(chunked.text, chunked.cut + 1, Len(chunked.text))
           string == bashPathsToWinPaths(data, chunked.shell)
       IN  chunked' = [chunked EXCEPT !.pc = "two",
                                      !.output_acc = @ \o string]
    /\ UNCHANGED <<program_vars, walk, conv, matched>>

NextChunks == FirstChunk \/ SecondChunk

SpecChunks == InitChunks /\ [][NextChunks]_vars

\* ------------------------------------------------------------------------
\* Properties of the data handler (checked under SpecChunks)
\* ------------------------------------------------------------------------
\* C18 (as claimed): the text accumulated from the chunks is the inverse
\* path conversion of the whole text, however the text is cut, under the
\* WSL interpreter and under any other, and the Diagnostics parsed from it
\* are those of the whole text.
C18_ChunkingIndependent ==
    chunked.pc = "two" =>
        LET whole == bashPathsToWinPaths(chunked.text, chunked.shell)
        IN  /\ chunked.output_acc = whole
            /\ Scan(chunked.output_acc).diagnostics = Scan(whole).diagnostics

====
